---- MODULE Spec2Model ----
(***************************************************************************)
(* SPADE sequential pattern mining (src/src/spade.rs).                     *)
(*                                                                         *)
(* A Record is [sid, eid]; an EventSet is a set of event ids; a Pattern is *)
(* a sequence of EventSets; a List (id-list) is a sequence of Records.     *)
(* The engine holds two maps from Pattern to List: stack (the frontier)    *)
(* and store (everything discovered).  Maps are TLA+ functions whose       *)
(* domain is the set of keys.                                              *)
(***************************************************************************)
EXTENDS Integers, Sequences, FiniteSets, TLC

VARIABLES
    iter,       \* the stream of <<Record, EventSet>> handed to from_iter, kept
                \* beside the Spade it built until the first call on that Spade
    stack,      \* Spade.stack : HashMap<Pattern, List>
    store,      \* Spade.store : HashMap<Pattern, List>
    level,      \* number of next() calls made so far
    inserts,    \* number of insert() calls made so far
    op,         \* the operation that produced this state
    reported,   \* the sequence report() returned (<<>> when op # "report")
    list_a,     \* first argument of a join called on its own
    list_b,     \* second argument of a join called on its own
    list_out,   \* what that join returned
    min_sup_arg, \* the min_sup the last call was given (0 for a call that takes none)
    pairs,      \* the Vec candidate() returned to a next() in progress
    taken,      \* the indexes of `pairs` the pool has handed to a worker
    workers,    \* each worker's position inside the closure of next()
    result_map  \* the RwLock<HashMap> the workers of a next() in progress share

level_vars == <<pairs, taken, workers, result_map>>

vars == <<iter, stack, store, level, inserts, op, reported, list_a, list_b, list_out,
          min_sup_arg, pairs, taken, workers, result_map>>

----------------------------------------------------------------------------
(* Bounds of the model *)

MaxStream == 3      \* longest stream given to from_iter
MaxLevel == 2       \* most next() calls in a row
MaxMinSup == 1      \* largest min_sup passed to next()
MaxReport == 7      \* report() is explored on stores of at most this many patterns
MaxInserts == 2     \* most insert() calls
MaxList == 3        \* longest id-list given to a join called on its own
DeepLevel == 3      \* most next() calls in the three-event exploration
LiveLevel == 7      \* most next() calls of a caller that keeps calling
LiveStream == 2     \* longest stream given to that caller
ParStream == 2      \* longest stream of the step-by-step exploration of next()
ParLevel == 2       \* most next() calls in that exploration
MaxFrontier == 5    \* largest frontier a step-by-step next() is explored on
MaxPairs == 6       \* most candidate pairs of a step-by-step next()

Sids == 0 .. 1
Eids == 1 .. 2
Events == 0 .. 1

JoinSids == 0 .. 1
JoinEids == 1 .. 3

----------------------------------------------------------------------------
(* Records and their order *)

Record(sid, eid) == [sid |-> sid, eid |-> eid]

Records == {Record(s, e) : s \in Sids, e \in Eids}

\* #[derive(Ord)] on Record: by sid, then by eid
RecordLt(x, y) == x.sid < y.sid \/ (x.sid = y.sid /\ x.eid < y.eid)

EmptyMap == <<>>

Put(map, key, value) ==
    [k \in (DOMAIN map) \cup {key} |-> IF k = key THEN value ELSE map[k]]

\* HashMap::extend: every entry of `more` is inserted, replacing an equal key
Extend(map, more) ==
    [k \in (DOMAIN map) \cup (DOMAIN more) |->
        IF k \in DOMAIN more THEN more[k] ELSE map[k]]

\* the elements of a set of event ids in ascending order (BitSet::iter)
RECURSIVE BitSetIter(_)
BitSetIter(event_set) ==
    IF event_set = {} THEN <<>>
    ELSE LET m == CHOOSE x \in event_set : \A y \in event_set : x <= y
         IN <<m>> \o BitSetIter(event_set \ {m})

SidsOf(list) == {list[n].sid : n \in DOMAIN list}

IsStrictlyAscending(list) ==
    \A n \in 1 .. (Len(list) - 1) : RecordLt(list[n], list[n + 1])

----------------------------------------------------------------------------
(* join_extend and join_expand: the two-pointer loops.  The code's cursors *)
(* i and j count from 0; here they count from 1.                           *)

RECURSIVE join_extend_loop(_, _, _, _, _)
join_extend_loop(a, b, i, j, result) ==
    IF j <= Len(b) /\ i <= Len(a) THEN
        IF a[i].sid < b[j].sid THEN join_extend_loop(a, b, i + 1, j, result)
        ELSE IF a[i].sid > b[j].sid THEN join_extend_loop(a, b, i, j + 1, result)
        ELSE IF a[i].eid < b[j].eid
             THEN join_extend_loop(a, b, i, j + 1, Append(result, b[j]))
             ELSE join_extend_loop(a, b, i, j + 1, result)
    ELSE result

\* join_extend with `<=` for `<` in the eid test of line 231
RECURSIVE join_extend_le_loop(_, _, _, _, _)
join_extend_le_loop(a, b, i, j, result) ==
    IF j <= Len(b) /\ i <= Len(a) THEN
        IF a[i].sid < b[j].sid THEN join_extend_le_loop(a, b, i + 1, j, result)
        ELSE IF a[i].sid > b[j].sid THEN join_extend_le_loop(a, b, i, j + 1, result)
        ELSE IF a[i].eid <= b[j].eid
             THEN join_extend_le_loop(a, b, i, j + 1, Append(result, b[j]))
             ELSE join_extend_le_loop(a, b, i, j + 1, result)
    ELSE result

join_extend_le(a, b) == join_extend_le_loop(a, b, 1, 1, <<>>)

\* join_extend that pushes b[j] where line 226 should skip it
RECURSIVE join_extend_unmatched_loop(_, _, _, _, _)
join_extend_unmatched_loop(a, b, i, j, result) ==
    IF j <= Len(b) /\ i <= Len(a) THEN
        IF a[i].sid < b[j].sid THEN join_extend_unmatched_loop(a, b, i + 1, j, result)
        ELSE IF a[i].sid > b[j].sid
             THEN join_extend_unmatched_loop(a, b, i, j + 1, Append(result, b[j]))
        ELSE IF a[i].eid < b[j].eid
             THEN join_extend_unmatched_loop(a, b, i, j + 1, Append(result, b[j]))
             ELSE join_extend_unmatched_loop(a, b, i, j + 1, result)
    ELSE result

join_extend_unmatched(a, b) == join_extend_unmatched_loop(a, b, 1, 1, <<>>)

join_extend(a, b) == join_extend_loop(a, b, 1, 1, <<>>)

RECURSIVE join_expand_loop(_, _, _, _, _)
join_expand_loop(a, b, i, j, result) ==
    IF j <= Len(b) /\ i <= Len(a) THEN
        IF a[i].sid < b[j].sid THEN join_expand_loop(a, b, i + 1, j, result)
        ELSE IF a[i].sid > b[j].sid THEN join_expand_loop(a, b, i, j + 1, result)
        ELSE IF a[i].eid < b[j].eid THEN join_expand_loop(a, b, i + 1, j, result)
        ELSE IF a[i].eid > b[j].eid THEN join_expand_loop(a, b, i, j + 1, result)
        ELSE join_expand_loop(a, b, i + 1, j + 1, Append(result, b[j]))
    ELSE result

\* join_expand that advances j where line 260 advances i
RECURSIVE join_expand_wrong_cursor_loop(_, _, _, _, _)
join_expand_wrong_cursor_loop(a, b, i, j, result) ==
    IF j <= Len(b) /\ i <= Len(a) THEN
        IF a[i].sid < b[j].sid THEN join_expand_wrong_cursor_loop(a, b, i + 1, j, result)
        ELSE IF a[i].sid > b[j].sid THEN join_expand_wrong_cursor_loop(a, b, i, j + 1, result)
        ELSE IF a[i].eid < b[j].eid THEN join_expand_wrong_cursor_loop(a, b, i, j + 1, result)
        ELSE IF a[i].eid > b[j].eid THEN join_expand_wrong_cursor_loop(a, b, i, j + 1, result)
        ELSE join_expand_wrong_cursor_loop(a, b, i + 1, j + 1, Append(result, b[j]))
    ELSE result

join_expand_wrong_cursor(a, b) == join_expand_wrong_cursor_loop(a, b, 1, 1, <<>>)

join_expand(a, b) == join_expand_loop(a, b, 1, 1, <<>>)

----------------------------------------------------------------------------
(* Ingestion: insert and from_iter *)

\* stack.entry(vec![event]).or_default().push(record)
push_record(map, event_id, record) ==
    LET key == <<{event_id}>>
    IN Put(map, key, IF key \in DOMAIN map THEN Append(map[key], record)
                     ELSE <<record>>)

\* the loop `for event_id in event_set.iter()` over the ids still to visit
RECURSIVE insert_loop(_, _, _)
insert_loop(map, record, ids) ==
    IF ids = <<>> THEN map
    ELSE insert_loop(push_record(map, Head(ids), record), record, Tail(ids))

\* Spade::insert, as a function of the map it pushes into
insert(map, record, event_set) == insert_loop(map, record, BitSetIter(event_set))

\* the loop `for (record, event_set) in iter` of from_iter
RECURSIVE ingest(_, _)
ingest(map, stream) ==
    IF stream = <<>> THEN map
    ELSE ingest(insert(map, Head(stream)[1], Head(stream)[2]), Tail(stream))

\* put one record into an ascending list, after the records that are not greater
RECURSIVE sort_insert(_, _)
sort_insert(sorted, r) ==
    IF sorted = <<>> THEN <<r>>
    ELSE IF RecordLt(r, Head(sorted)) THEN <<r>> \o sorted
    ELSE <<Head(sorted)>> \o sort_insert(Tail(sorted), r)

\* v.par_sort_unstable(): the ascending arrangement of the list (equal Records
\* are indistinguishable, so the unstable sort has one possible result)
RECURSIVE par_sort_unstable(_)
par_sort_unstable(v) ==
    IF v = <<>> THEN <<>>
    ELSE sort_insert(par_sort_unstable(Tail(v)), Head(v))

\* v.dedup(): drops every element equal to the one before it
RECURSIVE dedup(_)
dedup(v) ==
    IF Len(v) <= 1 THEN v
    ELSE IF v[1] = v[2] THEN dedup(Tail(v))
    ELSE <<v[1]>> \o dedup(Tail(v))

\* the for_each of line 288 without the dedup
sort_only(v) == par_sort_unstable(v)

\* the for_each of line 288 without the sort
dedup_only(v) == dedup(v)

\* stack.values_mut().for_each(|v| { v.par_sort_unstable(); v.dedup(); })
sort_dedup(v) == dedup(par_sort_unstable(v))

\* FromIterator::from_iter: the stack it builds (the store is its clone)
from_iter(stream) ==
    LET pushed == ingest(EmptyMap, stream)
    IN [k \in DOMAIN pushed |-> sort_dedup(pushed[k])]

----------------------------------------------------------------------------
(* One BFS level: candidate and next *)

\* a filter that keeps an id-list as long as min_sup
survivors_ge(map, min_sup) == {p \in DOMAIN map : Len(map[p]) >= min_sup}

\* the filter_map of candidate: the frontier patterns that survive min_sup
survivors(map, min_sup) == {p \in DOMAIN map : Len(map[p]) > min_sup}

\* candidate(min_sup) walks the HashMap in its iteration order, which is
\* arbitrary: it pairs every survivor with itself and with every survivor
\* that comes later.  Over all iteration orders the pairs it can hand to the
\* workers are the ordered pairs of survivors.
candidate(map, min_sup) == survivors(map, min_sup) \X survivors(map, min_sup)

prefix(pattern) == SubSeq(pattern, 1, Len(pattern) - 1)

suffix(pattern) == pattern[Len(pattern)]

\* line 124 without the comparison of the prefixes
same_length(pattern_a, pattern_b) == Len(pattern_a) - 1 = Len(pattern_b) - 1

\* line 124 refusing a pattern paired with itself
same_class_distinct(pattern_a, pattern_b) ==
    /\ Len(pattern_a) - 1 = Len(pattern_b) - 1
    /\ prefix(pattern_a) = prefix(pattern_b)
    /\ pattern_a # pattern_b

\* line 124: last_idx_a == last_idx_b && prefix_a == prefix_b
same_class(pattern_a, pattern_b) ==
    /\ Len(pattern_a) - 1 = Len(pattern_b) - 1
    /\ prefix(pattern_a) = prefix(pattern_b)

\* line 162 (and line 174 with a and b exchanged):
\* last_idx_a + 1 == last_idx_b && &prefix_b[..last_idx_b - 1] == prefix_a
one_shorter(pattern_a, pattern_b) ==
    /\ (Len(pattern_a) - 1) + 1 = Len(pattern_b) - 1
    /\ SubSeq(prefix(pattern_b), 1, (Len(pattern_b) - 1) - 1) = prefix(pattern_a)

\* the closure without its last branch (lines 174-184)
offers_forward(map, pattern_a, pattern_b) ==
    LET list_of_a == map[pattern_a]
        list_of_b == map[pattern_b]
        suffix_a == suffix(pattern_a)
        suffix_b == suffix(pattern_b)
    IN  (IF same_class(pattern_a, pattern_b)
         THEN <<  <<Append(pattern_a, suffix_b), join_extend(list_of_a, list_of_b)>>  >>
              \o (IF pattern_a # pattern_b
                  THEN << <<Append(pattern_b, suffix_a), join_extend(list_of_b, list_of_a)>>,
                          <<Append(prefix(pattern_a), suffix_a \cup suffix_b),
                            join_expand(list_of_a, list_of_b)>> >>
                  ELSE <<>>)
         ELSE <<>>)
        \o (IF one_shorter(pattern_a, pattern_b)
            THEN << <<Append(pattern_a, suffix_b), join_extend(list_of_a, list_of_b)>> >>
            ELSE <<>>)

\* The body of the for_each closure for one candidate pair: the <<pattern, list>>
\* entries it offers to `result`, in the order of the code, each of which is
\* inserted when the key is found absent.
offers(map, pattern_a, pattern_b) ==
    LET list_of_a == map[pattern_a]
        list_of_b == map[pattern_b]
        suffix_a == suffix(pattern_a)
        suffix_b == suffix(pattern_b)
    IN  (IF same_class(pattern_a, pattern_b)
         THEN <<  <<Append(pattern_a, suffix_b), join_extend(list_of_a, list_of_b)>>  >>
              \o (IF pattern_a # pattern_b
                  THEN << <<Append(pattern_b, suffix_a), join_extend(list_of_b, list_of_a)>>,
                          <<Append(prefix(pattern_a), suffix_a \cup suffix_b),
                            join_expand(list_of_a, list_of_b)>> >>
                  ELSE <<>>)
         ELSE <<>>)
        \o (IF one_shorter(pattern_a, pattern_b)
            THEN << <<Append(pattern_a, suffix_b), join_extend(list_of_a, list_of_b)>> >>
            ELSE <<>>)
        \o (IF one_shorter(pattern_b, pattern_a)
            THEN << <<Append(pattern_b, suffix_a), join_extend(list_of_b, list_of_a)>> >>
            ELSE <<>>)

\* every <<pattern, list>> some worker offers during next(min_sup)
offered(map, min_sup) ==
    UNION { {offers(map, pair[1], pair[2])[n] :
                n \in DOMAIN offers(map, pair[1], pair[2])} :
            pair \in candidate(map, min_sup) }

\* The maps `result` can hold when the for_each is over.  The pairs run in
\* any order on the worker pool and contains_key / insert take the lock
\* separately, so for each key the list that stays is the list of any one of
\* the pairs that offer the key.
RECURSIVE retained(_, _)
retained(keys, entries) ==
    IF keys = {} THEN {EmptyMap}
    ELSE UNION { { Put(rest, key, e[2]) :
                     rest \in retained(keys \ {key}, entries),
                     e \in {x \in entries : x[1] = key} } :
                 key \in {CHOOSE k \in keys : TRUE} }

\* a next() that returns early, leaving the stack alone, when no pair emits
next_results_keep(map, min_sup) ==
    UNION { IF entries = {} THEN {map} ELSE retained({e[1] : e \in entries}, entries) :
            entries \in {offered(map, min_sup)} }

next_results(map, min_sup) ==
    UNION { retained({e[1] : e \in entries}, entries) :
            entries \in {offered(map, min_sup)} }

\* v[n] panics unless n is an index of v
index_panics(v, n) == n \notin DOMAIN v

\* the loop test of the joins reading `j <= b.len()`
in_loop_le(a, b, i, j) == j <= Len(b) + 1 /\ i <= Len(a)

\* lines 220 and 248: while j < b.len() && i < a.len(), cursors counted from 1
in_loop(a, b, i, j) == j <= Len(b) /\ i <= Len(a)

\* join_extend reads a[i] or b[j] out of bounds
RECURSIVE join_extend_panics(_, _, _, _)
join_extend_panics(a, b, i, j) ==
    IF in_loop(a, b, i, j) THEN
        IF index_panics(a, i) \/ index_panics(b, j) THEN TRUE
        ELSE IF a[i].sid < b[j].sid THEN join_extend_panics(a, b, i + 1, j)
        ELSE join_extend_panics(a, b, i, j + 1)
    ELSE FALSE

\* join_expand reads a[i] or b[j] out of bounds
RECURSIVE join_expand_panics(_, _, _, _)
join_expand_panics(a, b, i, j) ==
    IF in_loop(a, b, i, j) THEN
        IF index_panics(a, i) \/ index_panics(b, j) THEN TRUE
        ELSE IF a[i].sid < b[j].sid THEN join_expand_panics(a, b, i + 1, j)
        ELSE IF a[i].sid > b[j].sid THEN join_expand_panics(a, b, i, j + 1)
        ELSE IF a[i].eid < b[j].eid THEN join_expand_panics(a, b, i + 1, j)
        ELSE IF a[i].eid > b[j].eid THEN join_expand_panics(a, b, i, j + 1)
        ELSE join_expand_panics(a, b, i + 1, j + 1)
    ELSE FALSE

\* The closure of next() fails on a pair: len() - 1 of an empty pattern
\* (lines 111-112), a pattern that is no key of the stack (lines 114-115),
\* the slice bound last_idx - 1 below 0 (lines 162, 174), or an index out of
\* bounds in a join it calls.
closure_panics(map, pattern_a, pattern_b) ==
    \/ Len(pattern_a) = 0
    \/ Len(pattern_b) = 0
    \/ pattern_a \notin DOMAIN map
    \/ pattern_b \notin DOMAIN map
    \/ LET last_idx_a == Len(pattern_a) - 1
           last_idx_b == Len(pattern_b) - 1
       IN  \/ (last_idx_a + 1 = last_idx_b /\ last_idx_b - 1 < 0)
           \/ (last_idx_b + 1 = last_idx_a /\ last_idx_a - 1 < 0)
           \/ /\ same_class(pattern_a, pattern_b)
              /\ \/ join_extend_panics(map[pattern_a], map[pattern_b], 1, 1)
                 \/ /\ pattern_a # pattern_b
                    /\ \/ join_extend_panics(map[pattern_b], map[pattern_a], 1, 1)
                       \/ join_expand_panics(map[pattern_a], map[pattern_b], 1, 1)
           \/ /\ one_shorter(pattern_a, pattern_b)
              /\ join_extend_panics(map[pattern_a], map[pattern_b], 1, 1)
           \/ /\ one_shorter(pattern_b, pattern_a)
              /\ join_extend_panics(map[pattern_b], map[pattern_a], 1, 1)

\* some worker of next(min_sup) panics, which for_each passes on to the caller
next_panics(map, min_sup) ==
    \E pair \in candidate(map, min_sup) : closure_panics(map, pair[1], pair[2])

----------------------------------------------------------------------------
(* report *)

\* k.iter().map(|x| x.iter().count()).product()
RECURSIVE sort_key(_)
sort_key(pattern) ==
    IF pattern = <<>> THEN 1
    ELSE Cardinality(Head(pattern)) * sort_key(Tail(pattern))

\* the (pattern, support, sort_key) tuple the map closure builds for one entry
report_entry(map, k) == <<k, Len(map[k]), sort_key(k)>>

\* the key of line 205 with the support not negated
by_key_support_ascending(entry) == <<0 - entry[3], entry[2]>>

\* the key of par_sort_unstable_by_key: (-(sort_key as isize), -(support as isize))
by_key(entry) == <<0 - entry[3], 0 - entry[2]>>

\* Ord on the key tuples
KeyLeq(x, y) == x[1] < y[1] \/ (x[1] = y[1] /\ x[2] <= y[2])

\* par_sort_unstable_by_key over the entries collected from the HashMap: the
\* entries arrive in the map's arbitrary order and the sort is unstable, so
\* every arrangement that is ascending in the key is a possible result.
RECURSIVE par_sort_unstable_by_key(_)
par_sort_unstable_by_key(entries) ==
    IF entries = {} THEN {<<>>}
    ELSE UNION { { <<e>> \o rest : rest \in par_sort_unstable_by_key(entries \ {e}) } :
                 e \in {x \in entries : \A y \in entries : KeyLeq(by_key(x), by_key(y))} }

\* the sequences of (pattern, support) report() can return
report(map) ==
    { [n \in DOMAIN sorted |-> <<sorted[n][1], sorted[n][2]>>] :
        sorted \in par_sort_unstable_by_key({report_entry(map, k) : k \in DOMAIN map}) }

----------------------------------------------------------------------------
(* The engine as a state machine *)

EventSets == SUBSET Events

\* the streams from_iter is given: any order, repeats and empty EventSets included
Streams == UNION { [1 .. n -> Records \X EventSets] : n \in 0 .. MaxStream }

NoJoin == /\ list_a = <<>>
          /\ list_b = <<>>
          /\ list_out = <<>>

\* no next() is in progress
NoLevel == /\ pairs = <<>>
           /\ taken = {}
           /\ workers = <<>>
           /\ result_map = EmptyMap

Init ==
    /\ iter \in Streams
    /\ stack = EmptyMap
    /\ store = EmptyMap
    /\ level = 0
    /\ inserts = 0
    /\ op = "start"
    /\ reported = <<>>
    /\ min_sup_arg = 0
    /\ NoJoin
    /\ NoLevel

\* let spade: Spade = iter.collect();
DoFromIter ==
    /\ op = "start"
    /\ stack' = from_iter(iter)
    /\ store' = from_iter(iter)
    /\ op' = "from_iter"
    /\ UNCHANGED <<iter, level, inserts, reported, list_a, list_b, list_out, min_sup_arg, level_vars>>

\* Spade::new()
DoNew ==
    /\ op = "start"
    /\ stack' = EmptyMap
    /\ store' = EmptyMap
    /\ op' = "new"
    /\ UNCHANGED <<iter, level, inserts, reported, list_a, list_b, list_out, min_sup_arg, level_vars>>

\* spade.insert(record, event_set)
DoInsert(record, event_set) ==
    /\ op # "start"
    /\ inserts < MaxInserts
    /\ stack' = insert(stack, record, event_set)
    /\ inserts' = inserts + 1
    /\ op' = "insert"
    /\ reported' = <<>>
    /\ iter' = <<>>
    /\ min_sup_arg' = 0
    /\ UNCHANGED <<store, level, list_a, list_b, list_out, level_vars>>

\* spade.next(min_sup), at most `most` times
next(min_sup, most) ==
    /\ op # "start"
    /\ level < most
    /\ IF next_panics(stack, min_sup)
       THEN /\ op' = "panic"
            /\ UNCHANGED <<stack, store>>
       ELSE /\ \E result \in next_results(stack, min_sup) :
                  /\ store' = Extend(store, result)
                  /\ stack' = result
            /\ op' = "next"
    /\ level' = level + 1
    /\ reported' = <<>>
    /\ iter' = <<>>
    /\ min_sup_arg' = min_sup
    /\ UNCHANGED <<inserts, list_a, list_b, list_out, level_vars>>

DoNext == \E min_sup \in 0 .. MaxMinSup : next(min_sup, MaxLevel)

\* spade.report().  A call that follows another on the same Spade walks the
\* same HashMap in the same order and sorts it the same way, so it returns
\* the same sequence.
DoReport ==
    /\ op # "start"
    /\ Cardinality(DOMAIN store) <= MaxReport
    /\ reported' \in (IF op = "report" THEN {reported} ELSE report(store))
    /\ op' = "report"
    /\ iter' = <<>>
    /\ min_sup_arg' = 0
    /\ UNCHANGED <<stack, store, level, inserts, list_a, list_b, list_out, level_vars>>

Next == DoFromIter \/ DoNext \/ DoReport

Spec == Init /\ [][Next]_vars

----------------------------------------------------------------------------
(* The whole interface, insert included *)

DoInsertAny == \E record \in Records, event_set \in EventSets : DoInsert(record, event_set)

NextAPI == DoNew \/ DoFromIter \/ DoInsertAny \/ DoNext

InitAPI == Init /\ Len(iter) <= 1

SpecAPI == InitAPI /\ [][NextAPI]_vars

----------------------------------------------------------------------------
(* Three events at three eids of one sequence, mined for DeepLevel levels *)

DeepEventSets == (SUBSET (0 .. 2)) \ {{}}

DeepStreams ==
    { << <<Record(0, 1), e1>>, <<Record(0, 2), e2>>, <<Record(0, 3), e3>> >> :
        e1 \in DeepEventSets, e2 \in DeepEventSets, e3 \in DeepEventSets }

InitDeep ==
    /\ iter \in DeepStreams
    /\ stack = EmptyMap
    /\ store = EmptyMap
    /\ level = 0
    /\ inserts = 0
    /\ op = "start"
    /\ reported = <<>>
    /\ min_sup_arg = 0
    /\ NoJoin
    /\ NoLevel

DoNextDeep == next(0, DeepLevel)

NextDeep == DoFromIter \/ DoNextDeep

SpecDeep == InitDeep /\ [][NextDeep]_vars

----------------------------------------------------------------------------
(* The joins called on their own, on any two strictly ascending id-lists *)

JoinRecords == {Record(s, e) : s \in JoinSids, e \in JoinEids}

AscendingLists ==
    { l \in UNION { [1 .. n -> JoinRecords] : n \in 0 .. MaxList } :
        IsStrictlyAscending(l) }

InitJoin ==
    /\ iter = <<>>
    /\ stack = EmptyMap
    /\ store = EmptyMap
    /\ level = 0
    /\ inserts = 0
    /\ op = "start"
    /\ reported = <<>>
    /\ list_a \in AscendingLists
    /\ list_b \in AscendingLists
    /\ list_out = <<>>
    /\ min_sup_arg = 0
    /\ NoLevel

DoJoinExtend ==
    /\ op = "start"
    /\ list_out' = join_extend(list_a, list_b)
    /\ op' = "join_extend"
    /\ UNCHANGED <<iter, stack, store, level, inserts, reported, list_a, list_b, min_sup_arg, level_vars>>

DoJoinExpand ==
    /\ op = "start"
    /\ list_out' = join_expand(list_a, list_b)
    /\ op' = "join_expand"
    /\ UNCHANGED <<iter, stack, store, level, inserts, reported, list_a, list_b, min_sup_arg, level_vars>>

NextJoin == DoJoinExtend \/ DoJoinExpand

SpecJoin == InitJoin /\ [][NextJoin]_vars

----------------------------------------------------------------------------
(* One next() step by step: candidate(), then the closure of every pair on *)
(* the workers of the pool, then the commit of lines 187-189               *)

Workers == {"w1", "w2"}

\* every order in which a HashMap may hand out these keys
RECURSIVE Orders(_)
Orders(keys) ==
    IF keys = {} THEN {<<>>}
    ELSE UNION { {<<k>> \o rest : rest \in Orders(keys \ {k})} : k \in keys }

\* lines 94-98, pairing with every pattern of the Vec instead of the later ones
pairs_after_every(patterns, idx_a, idx_b) ==
    [n \in 1 .. Len(patterns) |-> <<patterns[idx_a], patterns[n]>>]

\* lines 94-98: (prefix_pattern, suffix_pattern) for each pattern left in the
\* cloned iterator
RECURSIVE pairs_after(_, _, _)
pairs_after(patterns, idx_a, idx_b) ==
    IF idx_b > Len(patterns) THEN <<>>
    ELSE << <<patterns[idx_a], patterns[idx_b]>> >>
         \o pairs_after(patterns, idx_a, idx_b + 1)

\* lines 91-99: each pattern with itself, then with each pattern after it
RECURSIVE candidate_loop(_, _)
candidate_loop(patterns, idx_a) ==
    IF idx_a > Len(patterns) THEN <<>>
    ELSE << <<patterns[idx_a], patterns[idx_a]>> >>
         \o pairs_after(patterns, idx_a, idx_a + 1)
         \o candidate_loop(patterns, idx_a + 1)

\* candidate(min_sup) when the HashMap hands out its keys in `order`
candidate_vec(order, map, min_sup) ==
    candidate_loop(SelectSeq(order, LAMBDA p : p \in survivors(map, min_sup)), 1)

\* a test that never finds the key
never_contains(map, key) == FALSE

\* result.read().unwrap().contains_key(&pattern)
contains_key(map, key) == key \in DOMAIN map

\* a worker between two pairs
Idle == [todo |-> <<>>, writing |-> FALSE]

InLevel == op \in {"candidate", "closure"}

\* next(min_sup) is entered: result is created and candidate() returns its Vec
LevelBegin(min_sup) ==
    /\ op \in {"from_iter", "next"}
    /\ level < ParLevel
    /\ Cardinality(DOMAIN stack) <= MaxFrontier
    /\ \E order \in Orders(DOMAIN stack) :
          pairs' = candidate_vec(order, stack, min_sup)
    /\ Len(pairs') <= MaxPairs
    /\ taken' = {}
    /\ workers' = [w \in Workers |-> Idle]
    /\ result_map' = EmptyMap
    /\ min_sup_arg' = min_sup
    /\ op' = "candidate"
    /\ iter' = <<>>
    /\ UNCHANGED <<stack, store, level, inserts, reported, list_a, list_b, list_out>>

\* the pool hands a pair nobody has taken to an idle worker, which enters the
\* closure: `todo` holds what the branches the pair satisfies will test, in order
Take(w) ==
    /\ InLevel
    /\ workers[w] = Idle
    /\ \E n \in DOMAIN pairs \ taken :
          /\ taken' = taken \cup {n}
          /\ workers' = [workers EXCEPT
                ![w] = [todo |-> offers(stack, pairs[n][1], pairs[n][2]),
                        writing |-> FALSE]]
    /\ op' = "closure"
    /\ UNCHANGED <<iter, stack, store, level, inserts, reported, list_a, list_b,
                   list_out, min_sup_arg, pairs, result_map>>

\* if !result.read().unwrap().contains_key(&pattern); the read lock is
\* released when the condition has been evaluated
Check(w) ==
    /\ InLevel
    /\ workers[w].todo # <<>>
    /\ ~workers[w].writing
    /\ workers' = [workers EXCEPT
          ![w] = IF contains_key(result_map, Head(workers[w].todo)[1])
                 THEN [todo |-> Tail(workers[w].todo), writing |-> FALSE]
                 ELSE [todo |-> workers[w].todo, writing |-> TRUE]]
    /\ op' = "closure"
    /\ UNCHANGED <<iter, stack, store, level, inserts, reported, list_a, list_b,
                   list_out, min_sup_arg, pairs, taken, result_map>>

\* let list = join(..); result.write().unwrap().insert(pattern, list);
Write(w) ==
    /\ InLevel
    /\ workers[w].writing
    /\ result_map' = Put(result_map, Head(workers[w].todo)[1], Head(workers[w].todo)[2])
    /\ workers' = [workers EXCEPT
          ![w] = [todo |-> Tail(workers[w].todo), writing |-> FALSE]]
    /\ op' = "closure"
    /\ UNCHANGED <<iter, stack, store, level, inserts, reported, list_a, list_b,
                   list_out, min_sup_arg, pairs, taken>>

\* for_each returns when every pair has been through the closure; lines 187-189
Commit ==
    /\ InLevel
    /\ taken = DOMAIN pairs
    /\ \A w \in Workers : workers[w] = Idle
    /\ store' = Extend(store, result_map)
    /\ stack' = result_map
    /\ level' = level + 1
    /\ op' = "next"
    /\ pairs' = <<>>
    /\ taken' = {}
    /\ workers' = <<>>
    /\ result_map' = EmptyMap
    /\ UNCHANGED <<iter, inserts, reported, list_a, list_b, list_out, min_sup_arg>>

DoLevelBegin == \E min_sup \in 0 .. MaxMinSup : LevelBegin(min_sup)

DoTake == \E w \in Workers : Take(w)

DoCheck == \E w \in Workers : Check(w)

DoWrite == \E w \in Workers : Write(w)

NextPar == DoFromIter \/ DoLevelBegin \/ DoTake \/ DoCheck \/ DoWrite \/ Commit

InitPar == Init /\ Len(iter) <= ParStream

SpecPar == InitPar /\ [][NextPar]_vars

----------------------------------------------------------------------------
(* next() called again and again by the caller, up to LiveLevel times *)

DoNextLive == \E min_sup \in 0 .. MaxMinSup : next(min_sup, LiveLevel)

NextLive == DoFromIter \/ DoNextLive

InitLive == Init /\ Len(iter) <= LiveStream

\* a caller that, once it has built the Spade, keeps calling next()
SpecLive ==
    /\ InitLive
    /\ [][NextLive]_vars
    /\ WF_vars(DoNextLive)

----------------------------------------------------------------------------
(* Vocabulary of the properties *)

RecordsOf(list) == {list[n] : n \in DOMAIN list}

\* the events that occur somewhere in a stream
EventsIn(stream) == UNION {stream[n][2] : n \in DOMAIN stream}

\* the Records a stream gives for event e
OccurrencesOf(stream, e) == {stream[n][1] : n \in {m \in DOMAIN stream : e \in stream[m][2]}}

\* the product of the cardinalities of a pattern's EventSets
RECURSIVE Score(_)
Score(pattern) ==
    IF Len(pattern) = 0 THEN 1
    ELSE Score(SubSeq(pattern, 1, Len(pattern) - 1)) * Cardinality(pattern[Len(pattern)])

DistinctSids(list) == Cardinality(SidsOf(list))

ButLast(pattern, n) == SubSeq(pattern, 1, Len(pattern) - n)

\* Rule E of the specification, section 4.3: p comes from the pair (pa, pb);
\* the second and third emissions are for two different patterns only
RuleE(pa, pb, p) ==
    /\ Len(pa) = Len(pb)
    /\ ButLast(pa, 1) = ButLast(pb, 1)
    /\ \/ p = Append(pa, suffix(pb))
       \/ pa # pb /\ p = Append(pb, suffix(pa))
       \/ pa # pb /\ p = Append(ButLast(pa, 1), suffix(pa) \cup suffix(pb))

\* Rules X+ and X- as the specification words them: the longer pattern without
\* its last EventSet is the shorter pattern
RuleXAsWritten(pa, pb, p) ==
    \/ Len(pa) + 1 = Len(pb) /\ ButLast(pb, 1) = pa /\ p = Append(pa, suffix(pb))
    \/ Len(pb) + 1 = Len(pa) /\ ButLast(pa, 1) = pb /\ p = Append(pb, suffix(pa))

\* Rules X+ and X- on prefixes: the longer pattern without its last two
\* EventSets is the shorter pattern without its last EventSet
RuleXOnPrefixes(pa, pb, p) ==
    \/ /\ Len(pa) + 1 = Len(pb)
       /\ ButLast(pb, 2) = ButLast(pa, 1)
       /\ p = Append(pa, suffix(pb))
    \/ /\ Len(pb) + 1 = Len(pa)
       /\ ButLast(pa, 2) = ButLast(pb, 1)
       /\ p = Append(pb, suffix(pa))

----------------------------------------------------------------------------
(* Properties *)

\* C1: after from_iter over a stream, for every event e the frontier maps the
\* pattern [{e}] to exactly the Records whose EventSet contained e, strictly
\* ascending by (sid, eid); there is a pattern only for an event that occurred;
\* and the store equals the frontier.
C1_Construct ==
    op = "from_iter" =>
        /\ store = stack
        /\ DOMAIN stack = { <<{e}>> : e \in EventsIn(iter) }
        /\ \A e \in EventsIn(iter) :
              /\ IsStrictlyAscending(stack[<<{e}>>])
              /\ RecordsOf(stack[<<{e}>>]) = OccurrencesOf(iter, e)

\* the stream gave two Records of one event in descending order, one of them twice
C1_Witness ==
    /\ op = "from_iter"
    /\ Len(iter) = 3
    /\ RecordLt(iter[2][1], iter[1][1])
    /\ iter[3] = iter[1]
    /\ iter[1][2] \cap iter[2][2] # {}

\* C2: for strictly ascending A and B, join_extend(A, B) is the subsequence of
\* B, in B's order, of the Records b for which some a in A has a.sid = b.sid
\* and a.eid < b.eid.
C2_JoinExtend ==
    op = "join_extend" =>
        list_out = SelectSeq(list_b,
                             LAMBDA r : \E n \in DOMAIN list_a :
                                           list_a[n].sid = r.sid /\ list_a[n].eid < r.eid)

\* a join over two sids that keeps some Records of B and drops others
C2_Witness ==
    /\ op = "join_extend"
    /\ Cardinality(SidsOf(list_a)) = 2
    /\ Len(list_out) >= 2
    /\ Len(list_out) < Len(list_b)

\* C3: for strictly ascending A and B, join_expand(A, B) is the Records that
\* are in both A and B, in ascending order, and join_expand(B, A) is the same.
C3_JoinExpand ==
    op = "join_expand" =>
        /\ IsStrictlyAscending(list_out)
        /\ RecordsOf(list_out) = RecordsOf(list_a) \cap RecordsOf(list_b)
        /\ join_expand(list_b, list_a) = list_out

\* two different lists with common Records and Records of their own
C3_Witness ==
    /\ op = "join_expand"
    /\ Len(list_out) >= 2
    /\ Len(list_out) < Len(list_a)
    /\ Len(list_out) < Len(list_b)

\* C4: every (pattern, support) that report() yields has support equal to the
\* number of distinct sids in the pattern's id-list in the store.
C4_SupportIsDistinctSids ==
    op = "report" =>
        \A n \in DOMAIN reported :
            reported[n][2] = DistinctSids(store[reported[n][1]])

\* C5: report() yields one entry per pattern of the store, and of any two
\* consecutive entries the earlier has the greater score, or the same score
\* and a support that is not smaller.
C5_ReportOrder ==
    op = "report" =>
        /\ Len(reported) = Cardinality(DOMAIN store)
        /\ {reported[n][1] : n \in DOMAIN reported} = DOMAIN store
        /\ \A n \in 1 .. (Len(reported) - 1) :
              \/ Score(reported[n][1]) > Score(reported[n + 1][1])
              \/ /\ Score(reported[n][1]) = Score(reported[n + 1][1])
                 /\ reported[n][2] >= reported[n + 1][2]

\* a report with two scores, and with two supports under one score
C5_Witness ==
    /\ op = "report"
    /\ \E m, n \in DOMAIN reported : Score(reported[m][1]) # Score(reported[n][1])
    /\ \E m, n \in DOMAIN reported :
          /\ Score(reported[m][1]) = Score(reported[n][1])
          /\ reported[m][2] # reported[n][2]

\* C6 as claimed: every pattern of the frontier after next comes from a pair of
\* patterns of the frontier before it under Rule E, or under Rule X+/X- where
\* the longer pattern without its last EventSet equals the shorter pattern.
C6_DerivedAsWritten ==
    [][op' = "next" =>
        \A p \in DOMAIN stack' :
            \E pa \in DOMAIN stack, pb \in DOMAIN stack :
                RuleE(pa, pb, p) \/ RuleXAsWritten(pa, pb, p)]_vars

\* C6 amended: every pattern of the frontier after next comes from a pair of
\* patterns of the frontier before it under Rule E, or under Rule X+/X- where
\* one pattern is one longer than the other and the longer pattern without its
\* last two EventSets equals the shorter pattern without its last EventSet.
C6_DerivedOnPrefixes ==
    [][op' = "next" =>
        \A p \in DOMAIN stack' :
            \E pa \in DOMAIN stack, pb \in DOMAIN stack :
                RuleE(pa, pb, p) \/ RuleXOnPrefixes(pa, pb, p)]_vars

\* the second level put a pattern in the frontier that only Rule X yields
C6_Witness ==
    /\ op = "next"
    /\ level = 2
    /\ \E p \in DOMAIN stack :
          /\ Len(p) = 2
          /\ Cardinality(p[1]) = 2
          /\ Cardinality(p[2]) = 1
          /\ stack[p] # <<>>

\* C7: after from_iter and any number of next calls, every id-list of the
\* frontier and of the store is strictly ascending by (sid, eid).
C7_Sorted ==
    /\ \A p \in DOMAIN stack : IsStrictlyAscending(stack[p])
    /\ \A p \in DOMAIN store : IsStrictlyAscending(store[p])

\* a level has produced an id-list of two Records
C7_Witness ==
    /\ op = "next"
    /\ \E p \in DOMAIN stack : Len(stack[p]) >= 2

\* C8: whenever next keeps for a pattern the id-list a pair (pa, pb) offered,
\* every sid of that id-list is a sid of the id-list of pa and of the id-list
\* of pb, so it has at most as many distinct sids as either parent.
C8_SidsFromParents ==
    [][op' = "next" =>
        \A pa \in DOMAIN stack, pb \in DOMAIN stack :
            \A n \in DOMAIN offers(stack, pa, pb) :
                LET p == offers(stack, pa, pb)[n][1]
                IN (p \in DOMAIN stack' /\ stack'[p] = offers(stack, pa, pb)[n][2]) =>
                      /\ SidsOf(stack'[p]) \subseteq SidsOf(stack[pa]) \cap SidsOf(stack[pb])
                      /\ DistinctSids(stack'[p]) <= DistinctSids(stack[pa])
                      /\ DistinctSids(stack'[p]) <= DistinctSids(stack[pb])]_vars

\* a sequence extension kept with a non-empty id-list whose first parent
\* occurs in more sequences than the extension
C8_Witness ==
    /\ op = "next"
    /\ level = 1
    /\ \E p \in DOMAIN stack :
          /\ Len(p) = 2
          /\ stack[p] # <<>>
          /\ DistinctSids(stack[p]) < DistinctSids(store[<<p[1]>>])

\* C9: after any sequence of new, from_iter, insert and next, every pattern
\* of the frontier is in the store with the same id-list.
C9_FrontierInStore ==
    op # "start" =>
        \A p \in DOMAIN stack : p \in DOMAIN store /\ store[p] = stack[p]

\* C10: once a pattern is in the store, its id-list is the same in every
\* later state.
C10_StoreNeverRevised ==
    [][\A p \in DOMAIN store : p \in DOMAIN store' /\ store'[p] = store[p]]_vars

----------------------------------------------------------------------------
(* C11 *)

\* C11: when min_sup is at least the length of every id-list of the frontier
\* (an empty frontier included), next(min_sup) leaves the frontier empty and
\* the store as it was; the frontier being empty then, the same holds of every
\* next() after it, whatever its min_sup.
C11_NothingFrequent ==
    [][(op' = "next" /\ \A p \in DOMAIN stack : Len(stack[p]) <= min_sup_arg')
          => (stack' = EmptyMap /\ store' = store)]_vars

\* a second next(), with min_sup 0, on the frontier a first next() emptied
\* because its min_sup equalled the length of every id-list
C11_Witness ==
    /\ op = "next"
    /\ level = 2
    /\ min_sup_arg = 0
    /\ stack = EmptyMap
    /\ store # EmptyMap
    /\ \A p \in DOMAIN store : Len(p) = 1 /\ Len(store[p]) = 1

----------------------------------------------------------------------------
(* C12 *)

\* the frontier from_iter builds from the one occurrence (sid 0, eid 1, {0})
SingleOccurrence == <<{0}>> :> <<Record(0, 1)>>

\* P ++ [suffix(P)], the first emission of the pair (P, P)
self_extension(pattern) == Append(pattern, suffix(pattern))

\* C12 as stated: the first next() puts a pattern [E, E] in the frontier only
\* with a non-empty id-list, and after from_iter over the single occurrence
\* (0, 1, {0}) and next(0) the frontier is empty.
C12_SelfPairOnlyIfNonEmpty ==
    (op = "next" /\ level = 1) =>
        /\ \A p \in DOMAIN stack : (Len(p) = 2 /\ p[1] = p[2]) => stack[p] # <<>>
        /\ (min_sup_arg = 0 /\ DOMAIN store \ DOMAIN stack = {<<{0}>>}
              /\ store[<<{0}>>] = <<Record(0, 1)>>) => stack = EmptyMap

\* C12, amended: next(min_sup) puts P ++ [suffix(P)] in the frontier for
\* every pattern P whose id-list is longer than min_sup, whether or not the
\* temporal join of that id-list with itself is empty; after from_iter over
\* the single occurrence (0, 1, {0}) and next(0) the frontier is exactly
\* [{0},{0}] with an empty id-list.
C12_SelfPairAlways ==
    [][op' = "next" =>
          /\ \A p \in DOMAIN stack :
                Len(stack[p]) > min_sup_arg' => self_extension(p) \in DOMAIN stack'
          /\ (stack = SingleOccurrence /\ min_sup_arg' = 0)
                => stack' = (<<{0}, {0}>> :> <<>>)]_vars

\* the single occurrence, constructed and mined one level with min_sup 0
C12_Witness ==
    /\ op = "next"
    /\ level = 1
    /\ min_sup_arg = 0
    /\ stack = (<<{0}, {0}>> :> <<>>)
    /\ store = (<<{0}>> :> <<Record(0, 1)>>) @@ stack

----------------------------------------------------------------------------
(* C13 *)

\* the key a worker is testing or writing
key_of(w) == Head(workers[w].todo)[1]

\* C13 as stated: within one next(), whatever the interleaving of the
\* workers, an insert into result only happens for a key that is absent, and
\* an id-list that is in result is never replaced.
C13_FirstWriterWins ==
    [][InLevel =>
          /\ \A w \in Workers :
                (workers[w].writing /\ workers'[w] # workers[w])
                    => key_of(w) \notin DOMAIN result_map
          /\ InLevel' =>
                \A k \in DOMAIN result_map : result_map'[k] = result_map[k]]_vars

\* C13, amended: within one next() a worker that finds the key present
\* leaves result alone and moves on; a worker that found it absent inserts
\* its id-list when it gets the write lock, replacing the id-list another
\* worker may have inserted since the test; no other entry is touched, no key
\* is removed, and when the level ends the frontier holds for each key one
\* of the id-lists the candidate pairs give for that key.
C13_LastWriterWins ==
    [][InLevel =>
          /\ \A w \in Workers :
                (workers[w].todo # <<>> /\ ~workers[w].writing
                   /\ key_of(w) \in DOMAIN result_map /\ workers'[w] # workers[w])
                    => (result_map' = result_map /\ ~workers'[w].writing)
          /\ \A w \in Workers :
                (workers[w].writing /\ workers'[w] # workers[w])
                    => /\ result_map'[key_of(w)] = Head(workers[w].todo)[2]
                       /\ \A k \in DOMAIN result_map \ {key_of(w)} :
                             k \in DOMAIN result_map' /\ result_map'[k] = result_map[k]
          /\ op' = "next" =>
                \A k \in DOMAIN stack' :
                    <<k, stack'[k]>> \in offered(stack, min_sup_arg)]_vars

\* a worker that found its key absent is about to insert, and the key has
\* been inserted by the other worker in between
C13_Witness ==
    /\ InLevel
    /\ \E w \in Workers : workers[w].writing /\ key_of(w) \in DOMAIN result_map

----------------------------------------------------------------------------
(* C14 *)

\* C14: for any frontier and min_sup, all the id-lists next(min_sup) can
\* retain for one key, whichever candidate pair and branch gives them, hold
\* the same number of distinct sids.
C14_SameSupport ==
    [][op' = "next" =>
          \A e1, e2 \in offered(stack, min_sup_arg') :
              e1[1] = e2[1] => DistinctSids(e1[2]) = DistinctSids(e2[2])]_vars

----------------------------------------------------------------------------
(* C15 *)

\* the keys the pairs of survivors emit, each pair taken in both orientations
emitted_keys(map, min_sup) == {e[1] : e \in offered(map, min_sup)}

\* C15: the set of keys of the frontier after next(min_sup) is a function of
\* the frontier before and of min_sup: it is the same for every order in
\* which the HashMap hands out the patterns (hence for either orientation of
\* each pair) and for every interleaving of the workers.
C15_SameKeys ==
    [][(InLevel /\ op' = "next") =>
          DOMAIN stack' = emitted_keys(stack, min_sup_arg)]_vars

\* a second level has ended whose frontier holds a key made from a pattern
\* of length 1 and a pattern of length 2 (lines 162-184), the pair of which
\* comes in one orientation or the other with the order of the HashMap
C15_Witness ==
    /\ op = "next"
    /\ level = 2
    /\ \E k \in DOMAIN stack :
          /\ Len(k) = 2
          /\ Cardinality(k[1]) = 2
          /\ <<k[1]>> \in DOMAIN store
          /\ \E q \in DOMAIN store : Len(q) = 2 /\ q[2] = k[2] /\ Cardinality(q[1]) = 1

----------------------------------------------------------------------------
(* C16 *)

\* the indexes at which a Vec of pairs holds one of these pairs
indexes_of(vec, wanted) == {n \in DOMAIN vec : vec[n] \in wanted}

\* C16: candidate(min_sup) returns pairs of patterns of the frontier whose
\* id-list is longer than min_sup and of no other pattern: each such pattern
\* with itself once, and each two distinct such patterns once, in one
\* orientation; so every key of the frontier a next(min_sup) leaves is
\* emitted by a pair of patterns whose id-lists are longer than min_sup.
C16_Candidate ==
    [][/\ op' = "candidate" =>
            /\ \A n \in DOMAIN pairs' :
                  /\ pairs'[n][1] \in DOMAIN stack /\ Len(stack[pairs'[n][1]]) > min_sup_arg'
                  /\ pairs'[n][2] \in DOMAIN stack /\ Len(stack[pairs'[n][2]]) > min_sup_arg'
            /\ \A p \in DOMAIN stack, q \in DOMAIN stack :
                  (Len(stack[p]) > min_sup_arg' /\ Len(stack[q]) > min_sup_arg')
                      => Cardinality(indexes_of(pairs', {<<p, q>>, <<q, p>>})) = 1
       /\ (InLevel /\ op' = "next") =>
            \A k \in DOMAIN stack' :
                \E p \in DOMAIN stack, q \in DOMAIN stack :
                    /\ Len(stack[p]) > min_sup_arg
                    /\ Len(stack[q]) > min_sup_arg
                    /\ \E n \in DOMAIN offers(stack, p, q) : offers(stack, p, q)[n][1] = k]_vars

\* candidate(min_sup) has returned the six pairs of three patterns and left
\* out a pattern whose id-list holds exactly min_sup records
C16_Witness ==
    /\ op = "candidate"
    /\ Len(pairs) = 6
    /\ \E p \in DOMAIN stack : Len(stack[p]) = min_sup_arg

----------------------------------------------------------------------------
(* C17 *)

\* C17: no sequence of new / from_iter, insert and next reaches a failing
\* step (report, which takes no index and no difference, has none): no next() has panicked, every pattern of the frontier is
\* non-empty, and the next() that may follow, whatever its min_sup, takes
\* len() - 1 of non-empty patterns only, evaluates last_idx - 1 only on an
\* index of at least 1, looks up keys of the frontier only, and reads a[i]
\* and b[j] within bounds in both joins.
C17_NoFailingStep ==
    /\ op # "panic"
    /\ \A p \in DOMAIN stack : Len(p) >= 1
    /\ \A min_sup \in 0 .. MaxMinSup : ~next_panics(stack, min_sup)

\* two next() calls have gone through after an insert, the second over a
\* frontier with patterns of lengths 1 and 2, and left non-empty id-lists
C17_Witness ==
    /\ op = "next"
    /\ level = 2
    /\ inserts >= 1
    /\ \E k \in DOMAIN stack : Len(k) = 3
    /\ \E k \in DOMAIN stack : Len(k) = 2 /\ Cardinality(k[1]) = 2 /\ stack[k] # <<>>

----------------------------------------------------------------------------
(* C18 *)

\* C18: whatever the dataset and the min_sup of each call, a caller that
\* has built the Spade and keeps calling next() comes to a call that leaves
\* the frontier empty, and from then on every next() leaves the frontier
\* empty and the store as it is.
C18_FixedPoint ==
    /\ (op = "from_iter") ~> (op = "next" /\ stack = EmptyMap)
    /\ [][(op = "next" /\ stack = EmptyMap /\ op' = "next")
            => (stack' = EmptyMap /\ store' = store)]_vars

\* the frontier has become empty after levels that found patterns of two
\* EventSets occurring in the dataset, and next() has been called again since
C18_Witness ==
    /\ op = "next"
    /\ stack = EmptyMap
    /\ level = LiveLevel
    /\ \E k \in DOMAIN store : Len(k) = 2 /\ Cardinality(k[2]) = 2 /\ store[k] # <<>>

----------------------------------------------------------------------------
(* C19 *)

\* from_iter files a Record under [{e}] for every event e it was given with
\* that Record: the events observed at a Record, and the Records of the dataset
observed(r) ==
    {e \in UNION {p[1] : p \in {q \in DOMAIN store : Len(q) = 1}} :
        <<{e}>> \in DOMAIN store /\ r \in RecordsOf(store[<<{e}>>])}

dataset_records ==
    UNION {RecordsOf(store[p]) : p \in {q \in DOMAIN store : Len(q) = 1}}

\* the first n EventSets of the pattern are observed in sequence r.sid at
\* ascending eids, the last of them at r
RECURSIVE occurs_ending(_, _, _)
occurs_ending(pattern, n, r) ==
    /\ pattern[n] \subseteq observed(r)
    /\ \/ n = 1
       \/ \E q \in dataset_records :
             q.sid = r.sid /\ q.eid < r.eid /\ occurs_ending(pattern, n - 1, q)

\* C19: for every pattern [E_0, ..., E_k] of the store and every Record
\* (s, e) of its id-list, the dataset given to from_iter holds eids
\* e_0 < ... < e_k = e in sequence s with each E_i among the events observed
\* at (s, e_i); the events observed at a Record are those the stream gives
\* with it.
C19_RealWitness ==
    /\ op = "from_iter" =>
          \A r \in Records :
              observed(r) = UNION {iter[n][2] : n \in {m \in DOMAIN iter : iter[m][1] = r}}
    /\ \A p \in DOMAIN store :
          \A n \in DOMAIN store[p] : occurs_ending(p, Len(p), store[p][n])

\* two levels in, the store holds a pattern of a two-event EventSet followed
\* by another EventSet with a non-empty id-list, and the dataset has records
\* of two sequences
C19_Witness ==
    /\ op = "next"
    /\ level = 2
    /\ Cardinality({r.sid : r \in dataset_records}) = 2
    /\ \E p \in DOMAIN store :
          /\ Len(p) = 2
          /\ Cardinality(p[1]) = 2
          /\ store[p] # <<>>

====
